---- MODULE Spec2Model ----
(***************************************************************************)
(* Air Quality & Pollen Forecast Tracker: the daily pipeline of            *)
(* src/air_quality_pollen_tracker.py (collect current conditions, archive  *)
(* forecasts, score the forecasts due today, report) over its three stores *)
(* (current-conditions files, forecast files, results.json).               *)
(*                                                                         *)
(* Dates.  A date string 'YYYY-MM-DD' is modelled by its day number        *)
(* (1, 2, ...); NoDate stands for every string datetime.strptime rejects   *)
(* ('' from a missing DateForecast, 'None-05-03' from a missing year).     *)
(* Dictionaries are functions over the set of their keys; None (a failed   *)
(* fetch) is the record NONE.                                              *)
(***************************************************************************)
EXTENDS Integers, Sequences, FiniteSets, TLC

(***************************************************************************)
(* Bounds of the model.                                                    *)
(***************************************************************************)
\* the calendar: runs happen on days 1..MaxDay
MaxDay == 3

\* the number of times main() is run
MaxRuns == 3

(***************************************************************************)
(* Program constants.                                                      *)
(***************************************************************************)
\* the catalog, in dictionary order (the first two of the eleven entries)
LOCATIONS == <<"KBIS", "KBOS">>

TOLERANCES == [aqi |-> 20, pollen |-> 1]

\* forecast_aqi[:3]
AQ_HORIZON == 3
\* daily_info[1:5]
POLLEN_LAST == 5

\* the value of forecast.get('DateForecast', '') when the field is missing
NoDate == 0

NONE == [ok |-> FALSE]

(***************************************************************************)
(* Python helpers.                                                         *)
(***************************************************************************)
EmptyDict == [k \in {} |-> 0]

\* d.get(k, default)
Get(d, k, default) == IF k \in DOMAIN d THEN d[k] ELSE default

\* d[k] = v
Put(d, k, v) == [x \in (DOMAIN d) \cup {k} |-> IF x = k THEN v ELSE d[x]]

\* the dictionary d without key k (Path.unlink of a file of a directory)
Del(d, k) == [x \in (DOMAIN d) \ {k} |-> d[x]]

Values(d) == {d[k] : k \in DOMAIN d}

\* max(...) of a non-empty collection
Max(S) == CHOOSE x \in S : \A y \in S : y <= x

Min2(a, b) == IF a <= b THEN a ELSE b

\* abs(x)
Abs(x) == IF x < 0 THEN 0 - x ELSE x

\* seq[:n]
Take(seq, n) == SubSeq(seq, 1, Min2(n, Len(seq)))

\* seq[a:b] (0-based, b exclusive)
Slice(seq, a, b) == SubSeq(seq, a + 1, Min2(b, Len(seq)))

\* datetime.strptime(s, '%Y-%m-%d') raises ValueError
StrptimeRaises(s) == s = NoDate

\* (strptime(target) - strptime(today)).days, both strings being dates
DaysBetween(target, today_str) == target - today_str

(***************************************************************************)
(* fetch_air_quality.  raw is what the provider did: status "nokey" (no    *)
(* AIRNOW_API_KEY), "error" (requests raised) or "ok" with the two JSON    *)
(* arrays current_data and forecast_data.                                  *)
(***************************************************************************)
ParamKey(param) ==
    CASE param = "O3" -> "o3"
      [] param = "PM2.5" -> "pm25"
      [] param = "PM10" -> "pm10"
      [] OTHER -> ""

RECURSIVE ParseMeasurements(_, _)
ParseMeasurements(ms, acc) ==
    IF ms = <<>> THEN acc
    ELSE LET m == Head(ms)
             key == ParamKey(Get(m, "ParameterName", ""))
             aqi == Get(m, "AQI", 0)
         IN ParseMeasurements(Tail(ms),
                IF key = "" THEN acc ELSE Put(acc, key, aqi))

\* a slip: the sum of the sub-indices
OverallAqiSum(aqi_data) ==
    Get(aqi_data, "o3", 0) + Get(aqi_data, "pm25", 0) + Get(aqi_data, "pm10", 0)

\* the overall AQI is the highest value
OverallAqi(aqi_data) == Max(Values(aqi_data))

ParseCurrentAq(current_data) ==
    LET aqi_data == ParseMeasurements(current_data, EmptyDict)
    IN IF aqi_data # EmptyDict
       THEN Put(aqi_data, "aqi", OverallAqi(aqi_data))
       ELSE aqi_data

ParseForecastAq(forecast_data) ==
    [i \in 1..Len(forecast_data) |->
        [date |-> Get(forecast_data[i], "DateForecast", NoDate),
         aqi |-> Get(forecast_data[i], "AQI", 0)]]

fetch_air_quality(raw) ==
    IF raw.status # "ok" THEN NONE
    ELSE [ok |-> TRUE,
          current |-> ParseCurrentAq(raw.current_data),
          forecast |-> Take(ParseForecastAq(raw.forecast_data), AQ_HORIZON)]

(***************************************************************************)
(* fetch_pollen.  raw.dailyInfo is the provider's list of days; a day is   *)
(* [date, plantInfo], its date [day, form]: form "full", "no_year" (year   *)
(* missing: the f-string gives 'None-MM-DD') or "no_month" (month or day   *)
(* missing, or no date at all: the format :02d raises TypeError, which     *)
(* the function catches).                                                  *)
(***************************************************************************)
RECURSIVE get_pollen_index(_, _)
get_pollen_index(plant_info, plant_type) ==
    IF plant_info = <<>> THEN 0
    ELSE IF Get(Head(plant_info), "code", "") = plant_type
         THEN Get(Head(plant_info), "value", 0)
         ELSE get_pollen_index(Tail(plant_info), plant_type)

OverallPollen(plant_info) ==
    Max({get_pollen_index(plant_info, "TREE"),
         get_pollen_index(plant_info, "GRASS"),
         get_pollen_index(plant_info, "WEED")})

PollenLevels(day_data) ==
    LET pi == Get(day_data, "plantInfo", <<>>)
    IN [tree |-> get_pollen_index(pi, "TREE"),
        grass |-> get_pollen_index(pi, "GRASS"),
        weed |-> get_pollen_index(pi, "WEED"),
        overall |-> OverallPollen(pi)]

FormatRaises(day_data) == day_data.date.form = "no_month"

FormatDate(day_data) ==
    IF day_data.date.form = "full" THEN day_data.date.day ELSE NoDate

ForecastPollenEntry(day_data) ==
    LET lv == PollenLevels(day_data)
    IN [date |-> FormatDate(day_data), tree |-> lv.tree, grass |-> lv.grass,
        weed |-> lv.weed, overall |-> lv.overall]

fetch_pollen(raw) ==
    IF raw.status # "ok" THEN NONE
    ELSE IF raw.dailyInfo = <<>> THEN NONE
    ELSE LET rest == Slice(raw.dailyInfo, 1, POLLEN_LAST)
         IN IF \E i \in 1..Len(rest) : FormatRaises(rest[i]) THEN NONE
            ELSE [ok |-> TRUE,
                  current |-> PollenLevels(raw.dailyInfo[1]),
                  forecast |-> [i \in 1..Len(rest) |-> ForecastPollenEntry(rest[i])]]

(***************************************************************************)
(* The state.                                                              *)
(***************************************************************************)
VARIABLES
    today,             \* today_str of the current (or latest) run
    pc,                \* where main() stands: "idle" between two runs
    runs,              \* the number of runs so far
    keys,              \* AIRNOW_API_KEY and GOOGLE_MAPS_API_KEY of the running process: set or not
    loc_i,             \* index in LOCATIONS of the location the loop is at
    aq_data,           \* save_current_conditions' local aq_data
    pollen_data,       \* save_current_conditions' local pollen_data
    aq_current,        \* data/air_quality/current: date -> {location -> metrics}
    pollen_current,    \* data/pollen/current: date -> {location -> metrics}
    aq_forecasts,      \* data/air_quality/forecasts: file name -> content
    pollen_forecasts,  \* data/pollen/forecasts: file name -> content
    results,           \* data/results.json (the empty list: no file yet)
    glob_desc,         \* the directory order of the file system: descending names, or ascending
    todo,              \* the files the running glob loop has still to visit
    cur,               \* the file whose result is saved and which is not yet unlinked
    pass,              \* 1: score_forecasts called by main; 2: called once more
    pre_aq,            \* the air-quality forecast files when score_forecasts began
    pre_pollen,        \* the pollen forecast files when score_forecasts began
    pre_len,           \* len(results) when score_forecasts began
    script,            \* what the providers answer, where the answers are fixed beforehand
    procs              \* the processes inside score_forecasts, where two runs overlap

vars == <<today, pc, runs, keys, glob_desc, loc_i, aq_data, pollen_data, aq_current, pollen_current,
          aq_forecasts, pollen_forecasts, results, todo, cur, pass,
          pre_aq, pre_pollen, pre_len, script, procs>>

locals == <<loc_i, aq_data, pollen_data>>
current_files == <<aq_current, pollen_current>>
forecast_files == <<aq_forecasts, pollen_forecasts>>
score_locals == <<todo, cur>>
history == <<pass, pre_aq, pre_pollen, pre_len>>

NoFile == <<0, 0, "">>

\* the answers are not fixed beforehand
NoScript == [days |-> <<>>]

\* one run at a time
NoProcs == <<>>

(***************************************************************************)
(* What the providers answer on day t (the inputs of a run).               *)
(***************************************************************************)
Measurement(param, aqi) == [ParameterName |-> param, AQI |-> aqi]

Forecast(d, aqi) == [DateForecast |-> d, AQI |-> aqi]

\* the provider's entries about the days of the calendar (and those without a date)
InCalendar(entries) ==
    SelectSeq(entries, LAMBDA e : "DateForecast" \notin DOMAIN e \/ e.DateForecast <= MaxDay)

\* ozone and PM2.5 measured
AqCurrentInputs == { <<Measurement("O3", 40), Measurement("PM2.5", 71)>> }

\* an answer that includes today; one entry per pollutant and day
AqForecastInputs(t) ==
    { InCalendar(<<Forecast(t, 50), Forecast(t + 1, 50), Forecast(t + 2, 80)>>),
      InCalendar(<<Forecast(t + 1, 80), Forecast(t + 1, 50), Forecast(t + 2, 80),
                   Forecast(t + 2, 50)>>) }

\* an entry without DateForecast after the entries of the next two days
AqBrokenForecast(t) ==
    InCalendar(<<Forecast(t + 1, 50), Forecast(t + 2, 80)>>) \o << [AQI |-> 80] >>

\* no monitor reports near the location: the observation answer is the empty array
AqNoCurrent == <<>>

\* the forecast answer that comes with it: the empty array as well
AqNoCurrentForecast(t) == <<>>

\* the locations whose air-quality requests fail or come back broken at times
AqFlaky == {"KBIS"}

\* the locations whose pollen requests fail or come back broken at times
PollenFlaky == {"KBOS"}

\* the two API keys of a process: both set, or no AirNow key
KeyConfigs == {[airnow |-> TRUE, google |-> TRUE], [airnow |-> FALSE, google |-> TRUE]}

RawAq(t, code, airnow_key) ==
    IF ~airnow_key THEN {[status |-> "nokey"]}
    ELSE {[status |-> "ok", current_data |-> c, forecast_data |-> f] :
              c \in AqCurrentInputs, f \in AqForecastInputs(t)}
         \cup (IF code \in AqFlaky
               THEN {[status |-> "error"]} \cup
                    {[status |-> "ok", current_data |-> c,
                      forecast_data |-> AqBrokenForecast(t)] : c \in AqCurrentInputs} \cup
                    {[status |-> "ok", current_data |-> AqNoCurrent,
                      forecast_data |-> AqNoCurrentForecast(t)]}
               ELSE {})

Plant(code, value) == [code |-> code, value |-> value]

Day(d, form, plants) == [date |-> [day |-> d, form |-> form], plantInfo |-> plants]

PollenToday(t) == Day(t, "full", <<Plant("TREE", 3), Plant("GRASS", 1)>>)

PollenTomorrow(t, form) == Day(t + 1, form, <<Plant("GRASS", 2), Plant("WEED", 1)>>)

\* today and, within the calendar, tomorrow
PollenDays(t) ==
    <<PollenToday(t)>> \o (IF t + 1 <= MaxDay THEN <<PollenTomorrow(t, "full")>> ELSE <<>>)

RawPollen(t, code, google_key) ==
    IF ~google_key THEN {[status |-> "nokey"]}
    ELSE {[status |-> "ok", dailyInfo |-> PollenDays(t)]}
         \cup (IF code \in PollenFlaky
               THEN {[status |-> "error"], [status |-> "ok", dailyInfo |-> <<>>]} \cup
                    {[status |-> "ok",
                      dailyInfo |-> <<PollenToday(t), PollenTomorrow(t, form)>>] :
                         form \in {"no_year", "no_month"}}
               ELSE {})

(***************************************************************************)
(* save_forecasts: the two loops over a fetched forecast list.  Each gives *)
(* the directory after the loop and whether strptime raised on the way     *)
(* (the files written before the exception stay written).                  *)
(***************************************************************************)
AqForecastFile(forecast, today_str, lead_days, code) ==
    [issued_date |-> today_str, forecast_date |-> forecast.date,
     lead_days |-> lead_days, location |-> code, aqi |-> forecast.aqi]

PollenForecastFile(forecast, today_str, lead_days, code) ==
    [issued_date |-> today_str, forecast_date |-> forecast.date,
     lead_days |-> lead_days, location |-> code, tree |-> forecast.tree,
     grass |-> forecast.grass, weed |-> forecast.weed, overall |-> forecast.overall]

\* a slip: the lead time is left out of the file name
FileNameNoLead(today_str, lead_days, code) == <<today_str, 0, code>>

\* the file f"{today_str}_lead{lead_days}_{code}.json"
FileName(today_str, lead_days, code) == <<today_str, lead_days, code>>

\* a slip: lead_days >= 0 keeps the entry about today
RetainedSameDay(lead_days) == lead_days >= 0

\* if lead_days > 0
Retained(lead_days) == lead_days > 0

RECURSIVE WriteAqForecasts(_, _, _, _)
WriteAqForecasts(files, entries, today_str, code) ==
    IF entries = <<>> THEN [files |-> files, raised |-> FALSE]
    ELSE LET forecast == Head(entries)
             lead_days == DaysBetween(forecast.date, today_str)
         IN IF StrptimeRaises(forecast.date) THEN [files |-> files, raised |-> TRUE]
            ELSE WriteAqForecasts(
                    IF Retained(lead_days)
                    THEN Put(files, FileName(today_str, lead_days, code),
                             AqForecastFile(forecast, today_str, lead_days, code))
                    ELSE files,
                    Tail(entries), today_str, code)

RECURSIVE WritePollenForecasts(_, _, _, _)
WritePollenForecasts(files, entries, today_str, code) ==
    IF entries = <<>> THEN [files |-> files, raised |-> FALSE]
    ELSE LET forecast == Head(entries)
             lead_days == DaysBetween(forecast.date, today_str)
         IN IF StrptimeRaises(forecast.date) THEN [files |-> files, raised |-> TRUE]
            ELSE WritePollenForecasts(
                    IF Retained(lead_days)
                    THEN Put(files, FileName(today_str, lead_days, code),
                             PollenForecastFile(forecast, today_str, lead_days, code))
                    ELSE files,
                    Tail(entries), today_str, code)

\* if aq_result and aq_result.get('forecast'): the loop, else nothing
ArchiveAq(files, aq_result, today_str, code) ==
    IF aq_result.ok /\ aq_result.forecast # <<>>
    THEN WriteAqForecasts(files, aq_result.forecast, today_str, code)
    ELSE [files |-> files, raised |-> FALSE]

ArchivePollen(files, pollen_result, today_str, code) ==
    IF pollen_result.ok /\ pollen_result.forecast # <<>>
    THEN WritePollenForecasts(files, pollen_result.forecast, today_str, code)
    ELSE [files |-> files, raised |-> FALSE]

(***************************************************************************)
(* score_forecasts and save_result.                                        *)
(***************************************************************************)
\* a slip: the forecast's date is not compared with today
ScorableAnyDay(forecast, current, today_str) ==
    /\ today_str \in DOMAIN current
    /\ forecast.location \in DOMAIN current[today_str]

\* forecast['forecast_date'] == today_str, actual_file.exists(), location in actuals
Scorable(forecast, current, today_str) ==
    /\ forecast.forecast_date = today_str
    /\ today_str \in DOMAIN current
    /\ forecast.location \in DOMAIN current[today_str]

\* a slip: the bound is exclusive
AccurateStrict(diff, tolerance) == diff < tolerance

Accurate(diff, tolerance) == diff <= tolerance

\* a slip: the signed error instead of its absolute value
AqResultSigned(forecast, actuals, today_str) ==
    LET location == forecast.location
        actual_aqi == Get(actuals[location], "aqi", 0)
        forecast_aqi == forecast.aqi
        diff == actual_aqi - forecast_aqi
    IN [date |-> today_str, type |-> "air_quality", location |-> location,
        lead_days |-> forecast.lead_days, forecast_aqi |-> forecast_aqi,
        actual_aqi |-> actual_aqi, diff |-> diff,
        accurate |-> Accurate(diff, TOLERANCES.aqi)]

AqResult(forecast, actuals, today_str) ==
    LET location == forecast.location
        actual_aqi == Get(actuals[location], "aqi", 0)
        forecast_aqi == forecast.aqi
        diff == Abs(actual_aqi - forecast_aqi)
    IN [date |-> today_str, type |-> "air_quality", location |-> location,
        lead_days |-> forecast.lead_days, forecast_aqi |-> forecast_aqi,
        actual_aqi |-> actual_aqi, diff |-> diff,
        accurate |-> Accurate(diff, TOLERANCES.aqi)]

PollenResult(forecast, actuals, today_str) ==
    LET location == forecast.location
        actual_overall == Get(actuals[location], "overall", 0)
        forecast_overall == forecast.overall
        diff == Abs(actual_overall - forecast_overall)
    IN [date |-> today_str, type |-> "pollen", location |-> location,
        lead_days |-> forecast.lead_days, forecast_level |-> forecast_overall,
        actual_level |-> actual_overall, diff |-> diff,
        accurate |-> Accurate(diff, TOLERANCES.pollen)]

\* a slip: the list is written back without the new result
save_result_lost(file, result) == file

\* a slip: the file is written without the results loaded from it
save_result_fresh(file, result) == <<result>>

\* load results.json (or []), append, write it back
save_result(file, result) == Append(file, result)

\* a slip: the scored forecast is not deleted
UnlinkNothing(files, f) == files

\* a slip: the whole directory is emptied
UnlinkAll(files, f) == EmptyDict

\* forecast_file.unlink()
Unlink(files, f) == Del(files, f)

(***************************************************************************)
(* generate_ai_summary: locations_aqi[0] raises IndexError when the latest *)
(* scored date's air-quality snapshot holds no location.                   *)
(***************************************************************************)
LatestDate(log) == Max({log[i].date : i \in 1..Len(log)})

SummaryRaises ==
    /\ results # <<>>
    /\ LatestDate(results) \in DOMAIN aq_current
    /\ LatestDate(results) \in DOMAIN pollen_current
    /\ aq_current[LatestDate(results)] = EmptyDict

(***************************************************************************)
(* Path.glob yields a directory's files in the order of the file system;   *)
(* the model knows two: ascending and descending file names.               *)
(***************************************************************************)
\* f"{date}_lead{n}_{code}.json" compared as strings (one-digit leads, codes
\* in the order of LOCATIONS)
CodeRank(code) == CHOOSE i \in 1..Len(LOCATIONS) : LOCATIONS[i] = code

NameLess(f, g) ==
    \/ f[1] < g[1]
    \/ f[1] = g[1] /\ f[2] < g[2]
    \/ f[1] = g[1] /\ f[2] = g[2] /\ CodeRank(f[3]) < CodeRank(g[3])

\* the first of the files fs that the loop comes to
FirstOf(fs, desc) ==
    CHOOSE f \in fs : \A g \in fs \ {f} : IF desc THEN NameLess(g, f) ELSE NameLess(f, g)

\* the files of todo on which the loop does something
ScorableFiles(files, current, today_str, remaining) ==
    {f \in remaining : f \in DOMAIN files /\ Scorable(files[f], current, today_str)}

(***************************************************************************)
(* The runs.  main() is cut at the fetches of one location, at the writes  *)
(* of the snapshots, and at each save_result and unlink.  A loop iteration *)
(* of score_forecasts that only reads a file (not due, or no actual) is    *)
(* part of the step that follows it.                                       *)
(***************************************************************************)
Init ==
    /\ today = 1
    /\ pc = "idle"
    /\ runs = 0
    /\ keys \in KeyConfigs
    /\ glob_desc \in BOOLEAN
    /\ loc_i = 1
    /\ aq_data = EmptyDict
    /\ pollen_data = EmptyDict
    /\ aq_current = EmptyDict
    /\ pollen_current = EmptyDict
    /\ aq_forecasts = EmptyDict
    /\ pollen_forecasts = EmptyDict
    /\ results = <<>>
    /\ todo = {}
    /\ cur = NoFile
    /\ pass = 1
    /\ pre_aq = EmptyDict
    /\ pre_pollen = EmptyDict
    /\ pre_len = 0
    /\ script = NoScript
    /\ procs = NoProcs

\* main() is started on a day not before the latest run's
StartRun ==
    /\ pc = "idle"
    /\ runs < MaxRuns
    /\ runs' = runs + 1
    /\ \E d \in today..MaxDay : today' = d
    /\ pc' = "collect"
    /\ keys' = keys
    /\ loc_i' = 1
    /\ aq_data' = EmptyDict
    /\ pollen_data' = EmptyDict
    /\ UNCHANGED <<script, procs, glob_desc, current_files, forecast_files, results, score_locals, history>>

\* save_current_conditions: one iteration of the loop over LOCATIONS, the two
\* providers answering one of raws_aq and one of raws_pollen
CollectWith(raws_aq, raws_pollen) ==
    /\ pc = "collect"
    /\ loc_i <= Len(LOCATIONS)
    /\ \E raw_aq \in raws_aq, raw_pollen \in raws_pollen :
         LET code == LOCATIONS[loc_i]
             aq_result == fetch_air_quality(raw_aq)
             pollen_result == fetch_pollen(raw_pollen)
         IN /\ aq_data' = IF aq_result.ok
                          THEN Put(aq_data, code, aq_result.current) ELSE aq_data
            /\ pollen_data' = IF pollen_result.ok
                              THEN Put(pollen_data, code, pollen_result.current)
                              ELSE pollen_data
    /\ loc_i' = loc_i + 1
    /\ UNCHANGED <<script, procs, today, pc, runs, keys, glob_desc, current_files, forecast_files, results,
                   score_locals, history>>

CollectLocation ==
    CollectWith(RawAq(today, LOCATIONS[loc_i], keys.airnow),
                RawPollen(today, LOCATIONS[loc_i], keys.google))

\* a slip: the directory is left with today's file only
WriteSnapshotAlone(dir, today_str, data) == Put(EmptyDict, today_str, data)

\* open(aq_file, 'w'): json.dump(aq_data)
WriteSnapshot(dir, today_str, data) == Put(dir, today_str, data)

\* save_current_conditions: the two snapshots are written; save_forecasts begins
SaveCurrent ==
    /\ pc = "collect"
    /\ loc_i > Len(LOCATIONS)
    /\ aq_current' = WriteSnapshot(aq_current, today, aq_data)
    /\ pollen_current' = WriteSnapshot(pollen_current, today, pollen_data)
    /\ pc' = "archive"
    /\ loc_i' = 1
    /\ aq_data' = EmptyDict
    /\ pollen_data' = EmptyDict
    /\ UNCHANGED <<script, procs, today, runs, keys, glob_desc, forecast_files, results, score_locals, history>>

\* save_forecasts: one iteration of the loop over LOCATIONS; a ValueError of
\* strptime leaves main()
ArchiveWith(raws_aq, raws_pollen) ==
    /\ pc = "archive"
    /\ loc_i <= Len(LOCATIONS)
    /\ \E raw_aq \in raws_aq, raw_pollen \in raws_pollen :
         LET code == LOCATIONS[loc_i]
             aq == ArchiveAq(aq_forecasts, fetch_air_quality(raw_aq), today, code)
             pollen == ArchivePollen(pollen_forecasts, fetch_pollen(raw_pollen),
                                     today, code)
         IN /\ aq_forecasts' = aq.files
            /\ IF aq.raised
               THEN /\ pollen_forecasts' = pollen_forecasts
                    /\ pc' = "idle"
                    /\ keys' = keys
                    /\ loc_i' = 1
               ELSE /\ pollen_forecasts' = pollen.files
                    /\ IF pollen.raised
                       THEN pc' = "idle" /\ keys' = keys /\ loc_i' = 1
                       ELSE pc' = pc /\ keys' = keys /\ loc_i' = loc_i + 1
    /\ UNCHANGED <<script, procs, today, runs, glob_desc, aq_data, pollen_data, current_files, results,
                   score_locals, history>>

ArchiveLocation ==
    ArchiveWith(RawAq(today, LOCATIONS[loc_i], keys.airnow),
                RawPollen(today, LOCATIONS[loc_i], keys.google))

\* a slip: score_forecasts begins while save_forecasts has locations left
BeginScoreEarly ==
    /\ pc = "archive"
    /\ pc' = "score_aq"
    /\ loc_i' = 1
    /\ todo' = DOMAIN aq_forecasts
    /\ pass' = 1
    /\ pre_aq' = aq_forecasts
    /\ pre_pollen' = pollen_forecasts
    /\ pre_len' = Len(results)
    /\ UNCHANGED <<script, procs, today, runs, keys, glob_desc, aq_data, pollen_data, current_files, forecast_files,
                   results, cur>>

\* score_forecasts begins: AQ_FORECAST_DIR.glob
BeginScore ==
    /\ pc = "archive"
    /\ loc_i > Len(LOCATIONS)
    /\ pc' = "score_aq"
    /\ loc_i' = 1
    /\ todo' = DOMAIN aq_forecasts
    /\ pass' = 1
    /\ pre_aq' = aq_forecasts
    /\ pre_pollen' = pollen_forecasts
    /\ pre_len' = Len(results)
    /\ UNCHANGED <<script, procs, today, runs, keys, glob_desc, aq_data, pollen_data, current_files, forecast_files,
                   results, cur>>

\* the air-quality loop reaches a file that is due and has its actual: save_result
ScoreAqFile ==
    /\ pc = "score_aq"
    /\ ScorableFiles(aq_forecasts, aq_current, today, todo) # {}
    /\ LET f == FirstOf(ScorableFiles(aq_forecasts, aq_current, today, todo), glob_desc)
       IN
         /\ results' = save_result(results,
                          AqResult(aq_forecasts[f], aq_current[today], today))
         /\ cur' = f
    /\ pc' = "unlink_aq"
    /\ UNCHANGED <<script, procs, today, runs, keys, glob_desc, locals, current_files, forecast_files, todo, history>>

UnlinkAq ==
    /\ pc = "unlink_aq"
    /\ aq_forecasts' = Unlink(aq_forecasts, cur)
    /\ todo' = todo \ {cur}
    /\ cur' = NoFile
    /\ pc' = "score_aq"
    /\ UNCHANGED <<script, procs, today, runs, keys, glob_desc, locals, current_files, pollen_forecasts, results,
                   history>>

\* the air-quality loop ends; POLLEN_FORECAST_DIR.glob
BeginScorePollen ==
    /\ pc = "score_aq"
    /\ ScorableFiles(aq_forecasts, aq_current, today, todo) = {}
    /\ todo' = DOMAIN pollen_forecasts
    /\ pc' = "score_pollen"
    /\ UNCHANGED <<script, procs, today, runs, keys, glob_desc, locals, current_files, forecast_files, results,
                   cur, history>>

ScorePollenFile ==
    /\ pc = "score_pollen"
    /\ ScorableFiles(pollen_forecasts, pollen_current, today, todo) # {}
    /\ LET f == FirstOf(ScorableFiles(pollen_forecasts, pollen_current, today, todo),
                        glob_desc)
       IN
         /\ results' = save_result(results,
                          PollenResult(pollen_forecasts[f], pollen_current[today], today))
         /\ cur' = f
    /\ pc' = "unlink_pollen"
    /\ UNCHANGED <<script, procs, today, runs, keys, glob_desc, locals, current_files, forecast_files, todo, history>>

UnlinkPollen ==
    /\ pc = "unlink_pollen"
    /\ pollen_forecasts' = Unlink(pollen_forecasts, cur)
    /\ todo' = todo \ {cur}
    /\ cur' = NoFile
    /\ pc' = "score_pollen"
    /\ UNCHANGED <<script, procs, today, runs, keys, glob_desc, locals, current_files, aq_forecasts, results,
                   history>>

\* score_forecasts returns
EndScore ==
    /\ pc = "score_pollen"
    /\ ScorableFiles(pollen_forecasts, pollen_current, today, todo) = {}
    /\ todo' = {}
    /\ pc' = "report"
    /\ UNCHANGED <<script, procs, today, runs, keys, glob_desc, locals, current_files, forecast_files, results,
                   cur, history>>

\* generate_ai_summary, and main() returns; or generate_ai_summary raises
\* IndexError (SummaryRaises) and the process ends there: no store is touched
\* either way
Report ==
    /\ pc = "report"
    /\ keys' = keys
    /\ pc' = "idle"
    /\ pass' = 1
    /\ pre_aq' = EmptyDict
    /\ pre_pollen' = EmptyDict
    /\ pre_len' = 0
    /\ UNCHANGED <<script, procs, today, runs, glob_desc, locals, current_files, forecast_files, results,
                   score_locals>>

\* score_forecasts(today) is called a second time, right after the first
ScoreAgain ==
    /\ pc = "report"
    /\ pass = 1
    /\ pc' = "score_aq"
    /\ todo' = DOMAIN aq_forecasts
    /\ pass' = 2
    /\ pre_aq' = aq_forecasts
    /\ pre_pollen' = pollen_forecasts
    /\ pre_len' = Len(results)
    /\ UNCHANGED <<script, procs, today, runs, keys, glob_desc, locals, current_files, forecast_files, results, cur>>

Next ==
    \/ StartRun
    \/ CollectLocation
    \/ SaveCurrent
    \/ ArchiveLocation
    \/ BeginScore
    \/ ScoreAqFile
    \/ UnlinkAq
    \/ BeginScorePollen
    \/ ScorePollenFile
    \/ UnlinkPollen
    \/ EndScore
    \/ Report

Spec == Init /\ [][Next]_vars

\* the runs, with score_forecasts called twice in succession
NextRescore == Next \/ ScoreAgain

SpecRescore == Init /\ [][NextRescore]_vars

(***************************************************************************)
(* score_forecasts on its own: one air-quality and one pollen forecast of  *)
(* day 1 for day 2 are in the store, day 2's snapshots hold the actuals,   *)
(* and score_forecasts(2) runs.  Predicted and actual values range over    *)
(* the two scales.                                                         *)
(***************************************************************************)
AqiScale == {29, 30, 50, 70, 71}

PollenScale == 0..5

ScoreInit ==
    /\ today = 2
    /\ pc = "score_aq"
    /\ runs = 1
    /\ keys \in KeyConfigs
    /\ glob_desc \in BOOLEAN
    /\ loc_i = 1
    /\ aq_data = EmptyDict
    /\ pollen_data = EmptyDict
    /\ \E p \in AqiScale, a \in AqiScale :
         /\ aq_forecasts = WriteAqForecasts(EmptyDict, <<[date |-> 2, aqi |-> p]>>,
                                            1, LOCATIONS[1]).files
         /\ aq_current = WriteSnapshot(EmptyDict, 2,
                Put(EmptyDict, LOCATIONS[1], ParseCurrentAq(<<Measurement("PM2.5", a)>>)))
    /\ \E p \in PollenScale, a \in PollenScale :
         /\ pollen_forecasts =
                WritePollenForecasts(EmptyDict,
                    <<ForecastPollenEntry(Day(2, "full", <<Plant("TREE", p)>>))>>,
                    1, LOCATIONS[1]).files
         /\ pollen_current = WriteSnapshot(EmptyDict, 2,
                Put(EmptyDict, LOCATIONS[1],
                    PollenLevels(Day(2, "full", <<Plant("GRASS", a)>>))))
    /\ results = <<>>
    /\ todo = DOMAIN aq_forecasts
    /\ cur = NoFile
    /\ pass = 1
    /\ pre_aq = aq_forecasts
    /\ pre_pollen = pollen_forecasts
    /\ pre_len = 0
    /\ script = NoScript
    /\ procs = NoProcs

NextScore ==
    \/ ScoreAqFile
    \/ UnlinkAq
    \/ BeginScorePollen
    \/ ScorePollenFile
    \/ UnlinkPollen
    \/ EndScore

SpecScore == ScoreInit /\ [][NextScore]_vars

(***************************************************************************)
(* The properties.                                                         *)
(***************************************************************************)
Stores == {aq_forecasts, pollen_forecasts}

\* the results score_forecasts has appended since it began
Appended == {i \in 1..Len(results) : i > pre_len}

\* the ScoredResult res is the one of forecast record r of the given kind
ResultOf(res, r, type) ==
    /\ res.date = r.forecast_date
    /\ res.type = type
    /\ res.location = r.location
    /\ res.lead_days = r.lead_days

\* record r is due on day t and its location is in day t's snapshot
Matched(r, current, t) ==
    r.forecast_date = t /\ t \in DOMAIN current /\ r.location \in DOMAIN current[t]

IsPrefix(s, t) == Len(s) <= Len(t) /\ SubSeq(t, 1, Len(s)) = s

\* C1: every record in the forecast store (air quality or pollen) has lead time
\* >= 1 and target date - issue date = lead time; no entry whose target date is
\* the run date or earlier is in the store.
C1_LeadTimeAtLeastOne ==
    \A files \in Stores : \A f \in DOMAIN files :
        /\ files[f].lead_days >= 1
        /\ files[f].forecast_date - files[f].issued_date = files[f].lead_days
        /\ files[f].forecast_date > files[f].issued_date
        /\ f = <<files[f].issued_date, files[f].lead_days, files[f].location>>

\* a run has archived an air-quality forecast two days ahead and a pollen forecast
\* (the air-quality answers that hold them also hold an entry about today)
C1_Witness ==
    /\ pc = "archive"
    /\ loc_i > Len(LOCATIONS)
    /\ \E f \in DOMAIN aq_forecasts :
         aq_forecasts[f].issued_date = today /\ aq_forecasts[f].lead_days = 2
    /\ \E f \in DOMAIN pollen_forecasts : pollen_forecasts[f].issued_date = today

\* C2: at the end of score_forecasts, a record that was in the store when it
\* began is gone if and only if a result for it (same date, kind, location and
\* lead time) was appended to the log since.
C2_RemovedIffLogged ==
    pc = "report" =>
        /\ \A f \in DOMAIN pre_aq :
             (f \notin DOMAIN aq_forecasts) <=>
             (\E i \in Appended : ResultOf(results[i], pre_aq[f], "air_quality"))
        /\ \A f \in DOMAIN pre_pollen :
             (f \notin DOMAIN pollen_forecasts) <=>
             (\E i \in Appended : ResultOf(results[i], pre_pollen[f], "pollen"))

\* score_forecasts has ended, having removed a record and kept another
C2_Witness ==
    /\ pc = "report"
    /\ \E f \in DOMAIN pre_aq : f \notin DOMAIN aq_forecasts
    /\ \E f \in DOMAIN pre_aq : f \in DOMAIN aq_forecasts
    /\ \E f \in DOMAIN pre_pollen : f \notin DOMAIN pollen_forecasts

\* C3: the log never holds two results with the same date, kind, location and
\* lead time, whatever the runs (also several on one day).
C3_ScoredAtMostOnce ==
    \A i, j \in 1..Len(results) :
        (/\ results[i].date = results[j].date
         /\ results[i].type = results[j].type
         /\ results[i].location = results[j].location
         /\ results[i].lead_days = results[j].lead_days) => i = j

\* a run ends its scoring on a day on which an earlier run has scored already,
\* with forecasts of that day still in the store
C3_Witness ==
    /\ pc = "report"
    /\ pre_len > 0
    /\ results[pre_len].date = today
    /\ \E f \in DOMAIN aq_forecasts : aq_forecasts[f].issued_date = today

\* C4: score_forecasts run twice in succession for the same date: the first
\* call appends one result per matched record, the second appends nothing and
\* removes nothing.
C4_SecondScoreDoesNothing ==
    pc = "report" =>
        /\ pass = 1 =>
             Len(results) - pre_len =
                 Cardinality({f \in DOMAIN pre_aq : Matched(pre_aq[f], aq_current, today)})
                 + Cardinality({f \in DOMAIN pre_pollen :
                                    Matched(pre_pollen[f], pollen_current, today)})
        /\ pass = 2 =>
             /\ Len(results) = pre_len
             /\ aq_forecasts = pre_aq
             /\ pollen_forecasts = pre_pollen

\* the second call has ended after a first call that appended results (the run
\* is the second one and the first day-2 run: the log is the first call's)
C4_Witness ==
    /\ pc = "report"
    /\ pass = 2
    /\ runs = 2
    /\ today = 2
    /\ Len(results) >= 2

\* C5: the log is append-only: at every step its old content is a prefix of its
\* new content.
C5_LogAppendOnly == [][IsPrefix(results, results')]_vars

\* two runs have appended to the log
C5_Witness ==
    /\ Len(results) >= 2
    /\ results[1].date # results[Len(results)].date

\* C6: every scored record has diff = |actual - predicted|, whichever of the two
\* is larger, and is accurate exactly when diff <= 20 (air quality) or diff <= 1
\* (pollen), the bounds included: predicted 50 with actual 70 is accurate, with
\* actual 71 it is not; predicted level 2 with actual 3 is accurate, with actual
\* 4 it is not.  Predicted and actual are the stored forecast's and the
\* snapshot's values.
C6_AccurateWithinTolerance ==
    \A i \in 1..Len(results) :
        LET r == results[i] IN
        IF r.type = "air_quality"
        THEN /\ \E f \in DOMAIN pre_aq : r.forecast_aqi = pre_aq[f].aqi
             /\ r.actual_aqi = aq_current[today][r.location].aqi
             /\ r.diff = Abs(r.actual_aqi - r.forecast_aqi)
             /\ r.diff = Abs(r.forecast_aqi - r.actual_aqi)
             /\ r.accurate <=> r.diff <= 20
             /\ (r.forecast_aqi = 50 /\ r.actual_aqi = 70) => r.accurate
             /\ (r.forecast_aqi = 50 /\ r.actual_aqi = 71) => ~r.accurate
             /\ (r.forecast_aqi = 50 /\ r.actual_aqi = 30) => r.accurate
             /\ (r.forecast_aqi = 50 /\ r.actual_aqi = 29) => ~r.accurate
        ELSE /\ \E f \in DOMAIN pre_pollen : r.forecast_level = pre_pollen[f].overall
             /\ r.actual_level = pollen_current[today][r.location].overall
             /\ r.diff = Abs(r.actual_level - r.forecast_level)
             /\ r.diff = Abs(r.forecast_level - r.actual_level)
             /\ r.accurate <=> r.diff <= 1
             /\ (r.forecast_level = 2 /\ r.actual_level = 3) => r.accurate
             /\ (r.forecast_level = 2 /\ r.actual_level = 4) => ~r.accurate
             /\ (r.forecast_level = 2 /\ r.actual_level = 1) => r.accurate
             /\ (r.forecast_level = 2 /\ r.actual_level = 0) => ~r.accurate

\* an air-quality forecast of 50 was scored against 70 and a pollen forecast of
\* level 2 against level 3: both on the bound
C6_Witness ==
    /\ pc = "report"
    /\ \E i \in 1..Len(results) :
         /\ results[i].type = "air_quality"
         /\ results[i].forecast_aqi = 50
         /\ results[i].actual_aqi = 70
         /\ results[i].diff = 20
    /\ \E i \in 1..Len(results) :
         /\ results[i].type = "pollen"
         /\ results[i].forecast_level = 2
         /\ results[i].actual_level = 3
         /\ results[i].diff = 1

\* C7: a location written into the snapshot of a date stays in the snapshot of
\* that date at every later step (air quality and pollen).
C7_SnapshotMerged ==
    [][/\ \A d \in DOMAIN aq_current : \A code \in DOMAIN aq_current[d] :
            d \in DOMAIN aq_current' /\ code \in DOMAIN aq_current'[d]
       /\ \A d \in DOMAIN pollen_current : \A code \in DOMAIN pollen_current[d] :
            d \in DOMAIN pollen_current' /\ code \in DOMAIN pollen_current'[d]]_vars

\* C8: a run that has begun save_forecasts goes on to the next location or to
\* score_forecasts, whatever the sources answer.
C8_RunReachesScore ==
    [][pc = "archive" => pc' \in {"archive", "score_aq"}]_vars

\* C9: in score_forecasts on day T, a record due on T whose location is not in
\* T's snapshot of its kind (or whose snapshot is missing) is skipped: it stays
\* in the store unchanged and no result is appended for it.
C9_UnmatchedSkipped ==
    pc \in {"score_aq", "unlink_aq", "score_pollen", "unlink_pollen", "report"} =>
        /\ \A f \in DOMAIN pre_aq :
             (pre_aq[f].forecast_date = today /\ ~Matched(pre_aq[f], aq_current, today))
             => /\ f \in DOMAIN aq_forecasts
                /\ aq_forecasts[f] = pre_aq[f]
                /\ ~\E i \in Appended : ResultOf(results[i], pre_aq[f], "air_quality")
        /\ \A f \in DOMAIN pre_pollen :
             (/\ pre_pollen[f].forecast_date = today
              /\ ~Matched(pre_pollen[f], pollen_current, today))
             => /\ f \in DOMAIN pollen_forecasts
                /\ pollen_forecasts[f] = pre_pollen[f]
                /\ ~\E i \in Appended : ResultOf(results[i], pre_pollen[f], "pollen")

\* score_forecasts has ended, having scored a record and skipped an air-quality
\* and a pollen record that were due, their locations not in today's snapshots
C9_Witness ==
    /\ pc = "report"
    /\ Len(results) > pre_len
    /\ \E f \in DOMAIN pre_aq :
         /\ pre_aq[f].forecast_date = today
         /\ pre_aq[f].location \notin DOMAIN aq_current[today]
    /\ \E f \in DOMAIN pre_pollen :
         /\ pre_pollen[f].forecast_date = today
         /\ pre_pollen[f].location \notin DOMAIN pollen_current[today]

\* the result the lifecycle promises for the air-quality record r on day t
LifecycleAq(r, t) ==
    LET a == Get(aq_current[t][r.location], "aqi", 0)
        d == IF a >= r.aqi THEN a - r.aqi ELSE r.aqi - a
    IN [date |-> t, type |-> "air_quality", location |-> r.location,
        lead_days |-> r.forecast_date - r.issued_date, forecast_aqi |-> r.aqi,
        actual_aqi |-> a, diff |-> d, accurate |-> (d <= 20)]

\* the result the lifecycle promises for the pollen record r on day t
LifecyclePollen(r, t) ==
    LET a == Get(pollen_current[t][r.location], "overall", 0)
        d == IF a >= r.overall THEN a - r.overall ELSE r.overall - a
    IN [date |-> t, type |-> "pollen", location |-> r.location,
        lead_days |-> r.forecast_date - r.issued_date, forecast_level |-> r.overall,
        actual_level |-> a, diff |-> d, accurate |-> (d <= 1)]

\* C10: a forecast archived on day D for location X and day T = D + L, L >= 1,
\* with predicted value p, is scored by the run of day T whose snapshot holds an
\* actual a for X: at the end of score_forecasts exactly one result {date T,
\* location X, lead L, predicted p, actual a, diff |a - p|, accurate per the
\* tolerance} was appended for it and the record is gone; so for every record
\* due on T whose location is in T's snapshot.
C10_Lifecycle ==
    pc = "report" =>
        /\ \A f \in DOMAIN pre_aq :
             Matched(pre_aq[f], aq_current, today)
             => /\ pre_aq[f].forecast_date - pre_aq[f].issued_date >= 1
                /\ Cardinality({i \in Appended :
                                  ResultOf(results[i], pre_aq[f], "air_quality")}) = 1
                /\ \E i \in Appended : results[i] = LifecycleAq(pre_aq[f], today)
                /\ f \notin DOMAIN aq_forecasts
        /\ \A f \in DOMAIN pre_pollen :
             Matched(pre_pollen[f], pollen_current, today)
             => /\ pre_pollen[f].forecast_date - pre_pollen[f].issued_date >= 1
                /\ Cardinality({i \in Appended :
                                  ResultOf(results[i], pre_pollen[f], "pollen")}) = 1
                /\ \E i \in Appended : results[i] = LifecyclePollen(pre_pollen[f], today)
                /\ f \notin DOMAIN pollen_forecasts

\* the run of day 3 has scored a forecast of 80 archived on day 1 against the
\* actual 71: lead 2, diff 9, accurate
C10_Witness ==
    /\ pc = "report"
    /\ today = 3
    /\ \E f \in DOMAIN pre_aq :
         /\ pre_aq[f].issued_date = 1
         /\ pre_aq[f].aqi = 80
         /\ f \notin DOMAIN aq_forecasts
    /\ \E i \in Appended :
         /\ results[i].type = "air_quality"
         /\ results[i].lead_days = 2
         /\ results[i].forecast_aqi = 80
         /\ results[i].actual_aqi = 71
         /\ results[i].diff = 9
         /\ results[i].accurate

\* C11: a location for which the source supplied no current measurements is not
\* in the day's snapshot with empty or zero metrics, and no forecast is scored
\* against an actual of 0 taken for such a location (no measurement of the
\* inputs is 0, so an actual of 0 is the default of a missing metric).
C11_NoDataAbsent ==
    /\ \A d \in DOMAIN aq_current : \A code \in DOMAIN aq_current[d] :
           aq_current[d][code] # EmptyDict
    /\ \A i \in 1..Len(results) :
           results[i].type = "air_quality" => results[i].actual_aqi # 0

(***************************************************************************)
(* save_current_conditions on its own, the providers answering with any    *)
(* combination of sub-metrics: each pollutant (each plant) is missing from *)
(* the answer, present without its index, or present with one of the       *)
(* levels.  The air-quality answers vary at the first location, the pollen *)
(* answers at the second.                                                  *)
(***************************************************************************)
AqiLevels == {30, 40, 65}

PollenLevelsSeen == {1, 3}

\* the measurements of one pollutant: none, one without AQI, one with an index
MeasurementsOf(param) ==
    {<<>>, << [ParameterName |-> param] >>} \cup {<<Measurement(param, v)>> : v \in AqiLevels}

\* the plantInfo entries of one plant: none, one without value, one with a level
PlantsOf(code) ==
    {<<>>, << [code |-> code] >>} \cup {<<Plant(code, v)>> : v \in PollenLevelsSeen}

MeasuredAq(code) ==
    IF code = LOCATIONS[1]
    THEN {[status |-> "ok", current_data |-> a \o b \o c, forecast_data |-> <<>>] :
              a \in MeasurementsOf("O3"), b \in MeasurementsOf("PM2.5"),
              c \in MeasurementsOf("PM10")}
    ELSE {[status |-> "ok", current_data |-> c, forecast_data |-> <<>>] :
              c \in AqCurrentInputs}

MeasuredPollen(t, code) ==
    IF code = LOCATIONS[1]
    THEN {[status |-> "ok", dailyInfo |-> <<PollenToday(t)>>]}
    ELSE {[status |-> "ok", dailyInfo |-> <<Day(t, "full", a \o b \o c)>>] :
              a \in PlantsOf("TREE"), b \in PlantsOf("GRASS"), c \in PlantsOf("WEED")}

CollectMeasured == CollectWith(MeasuredAq(LOCATIONS[loc_i]), MeasuredPollen(today, LOCATIONS[loc_i]))

CollectInit ==
    /\ today = 1
    /\ pc = "collect"
    /\ runs = 1
    /\ keys \in KeyConfigs
    /\ keys.airnow
    /\ glob_desc \in BOOLEAN
    /\ loc_i = 1
    /\ aq_data = EmptyDict
    /\ pollen_data = EmptyDict
    /\ aq_current = EmptyDict
    /\ pollen_current = EmptyDict
    /\ aq_forecasts = EmptyDict
    /\ pollen_forecasts = EmptyDict
    /\ results = <<>>
    /\ todo = {}
    /\ cur = NoFile
    /\ pass = 1
    /\ pre_aq = EmptyDict
    /\ pre_pollen = EmptyDict
    /\ pre_len = 0
    /\ script = NoScript
    /\ procs = NoProcs

NextCollect == CollectMeasured \/ SaveCurrent

SpecCollect == CollectInit /\ [][NextCollect]_vars

\* the larger of two numbers
Larger(a, b) == IF a >= b THEN a ELSE b

\* C12: the overall AQI of a location in the snapshot is the maximum of its o3,
\* pm25 and pm10 indices and the overall pollen value the maximum of tree, grass
\* and weed, an absent sub-metric counting as 0; {o3: 40, pm25: 65, pm10: 30}
\* gives 65.
C12_OverallIsMax ==
    /\ \A d \in DOMAIN aq_current : \A code \in DOMAIN aq_current[d] :
         LET m == aq_current[d][code] IN
         /\ Get(m, "aqi", 0) =
                Larger(Get(m, "o3", 0), Larger(Get(m, "pm25", 0), Get(m, "pm10", 0)))
         /\ (Get(m, "o3", 0) = 40 /\ Get(m, "pm25", 0) = 65 /\ Get(m, "pm10", 0) = 30)
                => Get(m, "aqi", 0) = 65
    /\ \A d \in DOMAIN pollen_current : \A code \in DOMAIN pollen_current[d] :
         LET m == pollen_current[d][code] IN
         m.overall = Larger(m.tree, Larger(m.grass, m.weed))

\* the snapshot holds {o3: 40, pm25: 65, pm10: 30} with overall 65 for the first
\* location and tree 1, grass 3, no weed with overall 3 for the second
C12_Witness ==
    /\ pc = "archive"
    /\ 1 \in DOMAIN aq_current
    /\ LOCATIONS[1] \in DOMAIN aq_current[1]
    /\ aq_current[1][LOCATIONS[1]] = [o3 |-> 40, pm25 |-> 65, pm10 |-> 30, aqi |-> 65]
    /\ pollen_current[1][LOCATIONS[2]] = [tree |-> 1, grass |-> 3, weed |-> 0, overall |-> 3]

\* where main() stands while score_forecasts runs
ScorePhase == {"score_aq", "unlink_aq", "score_pollen", "unlink_pollen"}

\* a file of the directory is written: a new name, or new content
Upsert(old, new) == \E f \in DOMAIN new : f \notin DOMAIN old \/ new[f] # old[f]

\* a file of the directory is deleted
Removal(old, new) == \E f \in DOMAIN old : f \notin DOMAIN new

\* C13: within a run the phases go Collect, Archive, Score, Report, each
\* beginning only after the one before has done all locations; the snapshots are
\* written only at the end of Collect, forecast files only in Archive, and the
\* log is appended to and forecast files are deleted only in Score.
C13_PhaseOrder ==
    [][/\ pc = "idle" => pc' \in {"idle", "collect"}
       /\ pc = "collect" => pc' \in {"collect", "archive"}
       /\ pc = "archive" => pc' \in {"archive", "score_aq", "idle"}
       /\ pc \in ScorePhase => pc' \in ScorePhase \cup {"report"}
       /\ pc = "report" => pc' \in {"report", "idle"}
       /\ (pc = "collect" /\ pc' = "archive") => loc_i > Len(LOCATIONS)
       /\ (pc = "archive" /\ pc' = "score_aq") => loc_i > Len(LOCATIONS)
       /\ (aq_current' # aq_current \/ pollen_current' # pollen_current)
              => pc = "collect" /\ pc' = "archive"
       /\ (Upsert(aq_forecasts, aq_forecasts') \/ Upsert(pollen_forecasts, pollen_forecasts'))
              => pc = "archive"
       /\ (\/ results' # results
           \/ Removal(aq_forecasts, aq_forecasts')
           \/ Removal(pollen_forecasts, pollen_forecasts'))
              => pc \in ScorePhase /\ pc' \in ScorePhase]_vars

\* a run has written today's snapshots, archived forecasts, and scored and
\* deleted a forecast
C13_Witness ==
    /\ pc = "report"
    /\ today \in DOMAIN aq_current
    /\ \E f \in DOMAIN aq_forecasts : aq_forecasts[f].issued_date = today
    /\ Len(results) > pre_len
    /\ Removal(pre_aq, aq_forecasts)

\* C14: a run for date D writes only the snapshot of D: at every step the
\* snapshot of every date other than the run date stays as it is, so the
\* snapshot of a date the runs have passed never changes again.
C14_OtherDatesFrozen ==
    [][/\ \A d \in DOMAIN aq_current :
            d # today' => d \in DOMAIN aq_current' /\ aq_current'[d] = aq_current[d]
       /\ \A d \in DOMAIN pollen_current :
            d # today' => d \in DOMAIN pollen_current' /\ pollen_current'[d] = pollen_current[d]
       /\ \A d \in DOMAIN aq_current' \cup DOMAIN pollen_current' : d <= today']_vars

\* a run of a later day has written its snapshots, day 1's being there and
\* different
C14_Witness ==
    /\ pc = "archive"
    /\ today >= 2
    /\ 1 \in DOMAIN aq_current
    /\ aq_current[1] # aq_current[today]
    /\ 1 \in DOMAIN pollen_current
    /\ pollen_current[1] # pollen_current[today]

(***************************************************************************)
(* The runs with the providers' answers fixed beforehand: what a provider   *)
(* answers about a location depends on the day only, so that a run on the   *)
(* day of the run before it gets the same responses.  script.days are the   *)
(* days of the runs.                                                        *)
(***************************************************************************)
ScriptDay == 2

Schedules == {<<1, 2, 2>>, <<1, 1, 2>>}

Scripts ==
    {[days |-> days, aq |-> aq, pollen |-> pollen] :
        days \in Schedules,
        aq \in {f \in [1..ScriptDay -> [{LOCATIONS[1], LOCATIONS[2]} ->
                         UNION {RawAq(d, code, TRUE) :
                                    d \in 1..ScriptDay, code \in {LOCATIONS[1], LOCATIONS[2]}}]] :
                    \A d \in 1..ScriptDay : \A code \in {LOCATIONS[1], LOCATIONS[2]} :
                        f[d][code] \in RawAq(d, code, TRUE)},
        pollen \in {f \in [1..ScriptDay -> [{LOCATIONS[1], LOCATIONS[2]} ->
                         UNION {RawPollen(d, code, TRUE) :
                                    d \in 1..ScriptDay, code \in {LOCATIONS[1], LOCATIONS[2]}}]] :
                    \A d \in 1..ScriptDay : \A code \in {LOCATIONS[1], LOCATIONS[2]} :
                        f[d][code] \in RawPollen(d, code, TRUE)}}

ScriptInit ==
    /\ today = 1
    /\ pc = "idle"
    /\ runs = 0
    /\ keys \in KeyConfigs
    /\ keys.airnow
    /\ glob_desc \in BOOLEAN
    /\ loc_i = 1
    /\ aq_data = EmptyDict
    /\ pollen_data = EmptyDict
    /\ aq_current = EmptyDict
    /\ pollen_current = EmptyDict
    /\ aq_forecasts = EmptyDict
    /\ pollen_forecasts = EmptyDict
    /\ results = <<>>
    /\ todo = {}
    /\ cur = NoFile
    /\ pass = 1
    /\ pre_aq = EmptyDict
    /\ pre_pollen = EmptyDict
    /\ pre_len = 0
    /\ script \in Scripts
    /\ procs = NoProcs

\* main() is started on the next day of the script
StartScripted ==
    /\ pc = "idle"
    /\ runs < Len(script.days)
    /\ runs' = runs + 1
    /\ today' = script.days[runs + 1]
    /\ pc' = "collect"
    /\ keys' = keys
    /\ loc_i' = 1
    /\ aq_data' = EmptyDict
    /\ pollen_data' = EmptyDict
    /\ UNCHANGED <<script, procs, glob_desc, current_files, forecast_files, results, score_locals, history>>

CollectScripted ==
    CollectWith({script.aq[today][LOCATIONS[loc_i]]}, {script.pollen[today][LOCATIONS[loc_i]]})

ArchiveScripted ==
    ArchiveWith({script.aq[today][LOCATIONS[loc_i]]}, {script.pollen[today][LOCATIONS[loc_i]]})

NextScripted ==
    \/ StartScripted
    \/ CollectScripted
    \/ SaveCurrent
    \/ ArchiveScripted
    \/ BeginScore
    \/ ScoreAqFile
    \/ UnlinkAq
    \/ BeginScorePollen
    \/ ScorePollenFile
    \/ UnlinkPollen
    \/ EndScore
    \/ Report

SpecScripted == ScriptInit /\ [][NextScripted]_vars

\* the run is on the day of the run before it
Repeated == runs >= 2 /\ script.days[runs] = script.days[runs - 1]

\* C15: with the same responses, the pipeline run a second time on the same
\* date leaves the snapshots, the forecast files and the log as the first run
\* left them: no step of the second run changes any of them.
C15_SecondRunChangesNothing ==
    [][(Repeated /\ runs' = runs) =>
          /\ aq_current' = aq_current
          /\ pollen_current' = pollen_current
          /\ aq_forecasts' = aq_forecasts
          /\ pollen_forecasts' = pollen_forecasts
          /\ results' = results]_vars

\* the second run of day 2 has ended; the first had scored forecasts of day 1
\* and archived forecasts that are still there
C15_Witness ==
    /\ Repeated
    /\ today = 2
    /\ pc = "report"
    /\ Len(results) >= 2
    /\ pre_len = Len(results)
    /\ \E f \in DOMAIN aq_forecasts : aq_forecasts[f].issued_date = 2

\* C16: when save_forecasts has done a location whose fetches succeeded, then
\* for every forecast entry the source returned with a target date T after the
\* run date D the store holds a record under (D, T - D, location) with that
\* entry's target date and predicted values (air quality and pollen).
C16_ArchivedAsReturned ==
    [][(pc = "archive" /\ pc' = "archive" /\ loc_i' = loc_i + 1) =>
          LET code == LOCATIONS[loc_i]
              raw_aq == script.aq[today][code]
              raw_pollen == script.pollen[today][code]
          IN /\ raw_aq.status = "ok" =>
                  \A i \in 1..Len(raw_aq.forecast_data) :
                      LET e == raw_aq.forecast_data[i] IN
                      ("DateForecast" \in DOMAIN e /\ e.DateForecast > today) =>
                          LET k == <<today, e.DateForecast - today, code>> IN
                          /\ k \in DOMAIN aq_forecasts'
                          /\ aq_forecasts'[k].forecast_date = e.DateForecast
                          /\ aq_forecasts'[k].aqi = e.AQI
             /\ (raw_pollen.status = "ok" /\ fetch_pollen(raw_pollen).ok) =>
                  \A i \in 2..Len(raw_pollen.dailyInfo) :
                      LET e == raw_pollen.dailyInfo[i] IN
                      (e.date.form = "full" /\ e.date.day > today) =>
                          LET k == <<today, e.date.day - today, code>> IN
                          /\ k \in DOMAIN pollen_forecasts'
                          /\ pollen_forecasts'[k].forecast_date = e.date.day
                          /\ pollen_forecasts'[k].overall = OverallPollen(e.plantInfo)]_vars

(***************************************************************************)
(* save_forecasts on its own, on day 1: AirNow answers about the first     *)
(* location with any list of up to MaxEntries entries about today and the  *)
(* next two days, and the forecast directory is empty or holds the files   *)
(* of an earlier run of the day.                                           *)
(***************************************************************************)
MaxEntries == 4

AqiForecast == {50, 80}

AqLists(t) ==
    UNION {[1..n -> {Forecast(d, v) : d \in t..(t + 2), v \in AqiForecast}] : n \in 0..MaxEntries}

\* the directory after an earlier run of day t that was answered 70 throughout
EarlierRun(t) ==
    WriteAqForecasts(
        WriteAqForecasts(EmptyDict, <<[date |-> t + 1, aqi |-> 70], [date |-> t + 2, aqi |-> 70]>>,
                         t, LOCATIONS[1]).files,
        <<[date |-> t + 1, aqi |-> 70]>>, t, LOCATIONS[2]).files

ArchiveScripts ==
    {[days |-> <<1>>,
      aq |-> <<[c \in {LOCATIONS[1], LOCATIONS[2]} |->
                  [status |-> "ok", current_data |-> CHOOSE m \in AqCurrentInputs : TRUE,
                   forecast_data |-> IF c = LOCATIONS[1] THEN l ELSE <<Forecast(2, 50)>>]]>>,
      pollen |-> <<[c \in {LOCATIONS[1], LOCATIONS[2]} |->
                      [status |-> "ok", dailyInfo |-> PollenDays(1)]]>>] : l \in AqLists(1)}

ArchiveInit ==
    /\ script \in ArchiveScripts
    /\ today = 1
    /\ pc = "archive"
    /\ runs = 1
    /\ keys \in KeyConfigs
    /\ keys.airnow
    /\ glob_desc \in BOOLEAN
    /\ loc_i = 1
    /\ aq_data = EmptyDict
    /\ pollen_data = EmptyDict
    /\ aq_current = WriteSnapshot(EmptyDict, 1,
            [c \in {LOCATIONS[1], LOCATIONS[2]} |->
                fetch_air_quality(script.aq[1][c]).current])
    /\ pollen_current = WriteSnapshot(EmptyDict, 1,
            [c \in {LOCATIONS[1], LOCATIONS[2]} |->
                fetch_pollen(script.pollen[1][c]).current])
    /\ aq_forecasts \in {EmptyDict, EarlierRun(1)}
    /\ pollen_forecasts = EmptyDict
    /\ results = <<>>
    /\ todo = {}
    /\ cur = NoFile
    /\ pass = 1
    /\ pre_aq = EmptyDict
    /\ pre_pollen = EmptyDict
    /\ pre_len = 0
    /\ procs = NoProcs

NextArchive == ArchiveScripted \/ BeginScore

SpecArchive == ArchiveInit /\ [][NextArchive]_vars

\* what save_forecasts iterates over for the location it is at
Fetched == fetch_air_quality(script.aq[today][LOCATIONS[loc_i]]).forecast

\* the names save_forecasts writes for the location it is at
WrittenKeys ==
    {<<today, Fetched[i].date - today, LOCATIONS[loc_i]>> :
        i \in {j \in 1..Len(Fetched) : Fetched[j].date > today}}

\* C17: the store holds one record per key (issue date, lead, location): when
\* save_forecasts has done a location, a key written several times (two entries
\* with one target date, or a key an earlier run of the day wrote) holds the
\* values written last, and the records under all other keys are as before.
C17_OneRecordPerKey ==
    [][(pc = "archive" /\ loc_i <= Len(LOCATIONS) /\ pc' = "archive") =>
          /\ \A k \in DOMAIN aq_forecasts' :
                k = <<aq_forecasts'[k].issued_date, aq_forecasts'[k].lead_days,
                      aq_forecasts'[k].location>>
          /\ DOMAIN aq_forecasts' = DOMAIN aq_forecasts \cup WrittenKeys
          /\ \A i \in 1..Len(Fetched) :
                (/\ Fetched[i].date > today
                 /\ \A j \in (i + 1)..Len(Fetched) : Fetched[j].date # Fetched[i].date)
                => /\ aq_forecasts'[<<today, Fetched[i].date - today, LOCATIONS[loc_i]>>].aqi
                         = Fetched[i].aqi
                   /\ aq_forecasts'[<<today, Fetched[i].date - today,
                                     LOCATIONS[loc_i]>>].forecast_date = Fetched[i].date
          /\ \A k \in DOMAIN aq_forecasts \ WrittenKeys :
                aq_forecasts'[k] = aq_forecasts[k]]_vars

\* save_forecasts has done the first location, answered 80 and then 50 about
\* day 2: the file of an earlier run that held 70 holds 50, and the earlier
\* run's file about day 3 is as it was
C17_Witness ==
    /\ pc = "archive"
    /\ loc_i = 2
    /\ script.aq[1][LOCATIONS[1]].forecast_data = <<Forecast(2, 80), Forecast(2, 50)>>
    /\ <<1, 1, LOCATIONS[1]>> \in DOMAIN aq_forecasts
    /\ aq_forecasts[<<1, 1, LOCATIONS[1]>>].aqi = 50
    /\ <<1, 2, LOCATIONS[1]>> \in DOMAIN aq_forecasts
    /\ aq_forecasts[<<1, 2, LOCATIONS[1]>>].aqi = 70

\* C18: when save_forecasts has done a location, the predicted AQI of each
\* record it wrote for a target date T is the maximum of the AQI values of all
\* the entries the source returned for that location and T.
C18_ForecastIsMax ==
    [][(pc = "archive" /\ loc_i <= Len(LOCATIONS) /\ pc' = "archive") =>
          LET returned == script.aq[today][LOCATIONS[loc_i]].forecast_data IN
          \A k \in WrittenKeys :
              aq_forecasts'[k].aqi =
                  Max({returned[i].AQI :
                         i \in {j \in 1..Len(returned) :
                                  returned[j].DateForecast = aq_forecasts'[k].forecast_date}})]_vars

\* the results a step appends
NewResults == {results'[i] : i \in (Len(results) + 1)..Len(results')}

\* C19: a record that is in the store when the run date is past its target date
\* is never scored and never removed or changed by any step of any run: it
\* stays in the store.
C19_StaleStaysForever ==
    [][/\ \A f \in DOMAIN aq_forecasts :
            aq_forecasts[f].forecast_date < today' =>
                /\ f \in DOMAIN aq_forecasts'
                /\ aq_forecasts'[f] = aq_forecasts[f]
                /\ \A res \in NewResults : ~ResultOf(res, aq_forecasts[f], "air_quality")
       /\ \A f \in DOMAIN pollen_forecasts :
            pollen_forecasts[f].forecast_date < today' =>
                /\ f \in DOMAIN pollen_forecasts'
                /\ pollen_forecasts'[f] = pollen_forecasts[f]
                /\ \A res \in NewResults : ~ResultOf(res, pollen_forecasts[f], "pollen")]_vars

\* the run of day 3 has scored forecasts while an air-quality and a pollen
\* forecast about day 2, skipped on day 2 for want of an actual, are still there
C19_Witness ==
    /\ pc = "report"
    /\ today = 3
    /\ Len(results) > pre_len
    /\ 2 \in DOMAIN aq_current
    /\ 2 \in DOMAIN pollen_current
    /\ \E f \in DOMAIN aq_forecasts :
         /\ aq_forecasts[f].forecast_date = 2
         /\ aq_forecasts[f].location \notin DOMAIN aq_current[2]
    /\ \E f \in DOMAIN pollen_forecasts :
         /\ pollen_forecasts[f].forecast_date = 2
         /\ pollen_forecasts[f].location \notin DOMAIN pollen_current[2]

\* C20: a step that removes a record from the store finds its result in the log
\* already: the result is appended before the file is deleted, so in no state,
\* the one between the two steps included, is a record removed and not logged.
C20_LoggedBeforeRemoved ==
    [][/\ \A f \in DOMAIN aq_forecasts \ DOMAIN aq_forecasts' :
            \E i \in 1..Len(results) : ResultOf(results[i], aq_forecasts[f], "air_quality")
       /\ \A f \in DOMAIN pollen_forecasts \ DOMAIN pollen_forecasts' :
            \E i \in 1..Len(results) : ResultOf(results[i], pollen_forecasts[f], "pollen")
       /\ (pc \in {"score_aq", "score_pollen"} /\ results' # results) =>
            aq_forecasts' = aq_forecasts /\ pollen_forecasts' = pollen_forecasts]_vars

\* between the two steps: the result of a pollen forecast is the last of the log
\* and its file is still there, an air-quality file having been deleted before
C20_Witness ==
    /\ pc = "unlink_pollen"
    /\ cur \in DOMAIN pollen_forecasts
    /\ results # <<>>
    /\ ResultOf(results[Len(results)], pollen_forecasts[cur], "pollen")
    /\ Removal(pre_aq, aq_forecasts)

\* C21: when the air-quality source is unavailable for every location (no
\* AIRNOW_API_KEY) while the pollen source works, a run that has come to Report
\* completes it: generate_ai_summary does not raise.
C21_ReportCompletes ==
    (pc = "report" /\ ~keys.airnow /\ keys.google) => ~SummaryRaises

(***************************************************************************)
(* Two runs of day 2 that overlap in score_forecasts.  Each process is cut *)
(* at its file-system calls: the glob (the directory listing is read when  *)
(* the loop begins), the open of a forecast file, save_result's read of    *)
(* results.json, save_result's write, and the unlink.  open and unlink of  *)
(* a file the other process has deleted raise FileNotFoundError, which     *)
(* ends the process.  procs[p].wrote is what process p has passed to        *)
(* save_result.                                                             *)
(***************************************************************************)
ProcIds == {1, 2}

\* the forecast directory and the snapshots of a kind
StoreOf(kind) == IF kind = "aq" THEN aq_forecasts ELSE pollen_forecasts

CurrentOf(kind) == IF kind = "aq" THEN aq_current ELSE pollen_current

ResultFor(kind, forecast) ==
    IF kind = "aq" THEN AqResult(forecast, aq_current[today], today)
    ELSE PollenResult(forecast, pollen_current[today], today)

\* the forecast directories after the runs of day 1 and the Archive of day 2
OverlapAqForecasts ==
    LET day1 == <<[date |-> 2, aqi |-> 50]>>
        day2 == <<[date |-> 3, aqi |-> 50]>>
        a == WriteAqForecasts(EmptyDict, day1, 1, LOCATIONS[1]).files
        b == WriteAqForecasts(a, day1, 1, LOCATIONS[2]).files
    IN WriteAqForecasts(b, day2, 2, LOCATIONS[1]).files

OverlapPollenForecasts ==
    WritePollenForecasts(EmptyDict, <<ForecastPollenEntry(PollenTomorrow(1, "full"))>>,
                         1, LOCATIONS[1]).files

OverlapInit ==
    /\ today = 2
    /\ pc = "overlap"
    /\ runs = 2
    /\ keys \in KeyConfigs
    /\ keys.airnow
    /\ glob_desc \in BOOLEAN
    /\ loc_i = 1
    /\ aq_data = EmptyDict
    /\ pollen_data = EmptyDict
    /\ aq_current = WriteSnapshot(EmptyDict, 2,
            [c \in {LOCATIONS[1], LOCATIONS[2]} |->
                ParseCurrentAq(CHOOSE m \in AqCurrentInputs : TRUE)])
    /\ pollen_current = WriteSnapshot(EmptyDict, 2,
            [c \in {LOCATIONS[1], LOCATIONS[2]} |-> PollenLevels(PollenToday(2))])
    /\ aq_forecasts = OverlapAqForecasts
    /\ pollen_forecasts = OverlapPollenForecasts
    /\ results = <<>>
    /\ todo = {}
    /\ cur = NoFile
    /\ pass = 1
    /\ pre_aq = EmptyDict
    /\ pre_pollen = EmptyDict
    /\ pre_len = 0
    /\ script = NoScript
    /\ procs = [p \in ProcIds |->
                  [pc |-> "glob", kind |-> "aq", todo |-> {}, file |-> NoFile,
                   result |-> NONE, loaded |-> <<>>, wrote |-> {}]]

\* what no step of a process inside score_forecasts touches
OverlapFrame ==
    UNCHANGED <<today, pc, runs, keys, glob_desc, locals, current_files, score_locals,
                history, script>>

\* AQ_FORECAST_DIR.glob / POLLEN_FORECAST_DIR.glob: the listing
OverlapGlob ==
    \E p \in ProcIds :
        /\ procs[p].pc = "glob"
        /\ procs' = [procs EXCEPT ![p].pc = "loop",
                                  ![p].todo = DOMAIN StoreOf(procs[p].kind)]
        /\ UNCHANGED <<forecast_files, results>>
        /\ OverlapFrame

\* open(forecast_file) and the tests of one iteration
OverlapOpen ==
    \E p \in ProcIds :
        /\ procs[p].pc = "loop"
        /\ procs[p].todo # {}
        /\ LET f == FirstOf(procs[p].todo, glob_desc)
               files == StoreOf(procs[p].kind)
           IN procs' =
                IF f \notin DOMAIN files
                THEN [procs EXCEPT ![p].pc = "crashed"]
                ELSE IF Scorable(files[f], CurrentOf(procs[p].kind), today)
                THEN [procs EXCEPT ![p].pc = "load", ![p].file = f,
                                   ![p].result = ResultFor(procs[p].kind, files[f])]
                ELSE [procs EXCEPT ![p].todo = procs[p].todo \ {f}]
        /\ UNCHANGED <<forecast_files, results>>
        /\ OverlapFrame

\* save_result: json.load of results.json
OverlapLoad ==
    \E p \in ProcIds :
        /\ procs[p].pc = "load"
        /\ procs' = [procs EXCEPT ![p].pc = "save", ![p].loaded = results]
        /\ UNCHANGED <<forecast_files, results>>
        /\ OverlapFrame

\* save_result: append and json.dump
OverlapSave ==
    \E p \in ProcIds :
        /\ procs[p].pc = "save"
        /\ results' = save_result(procs[p].loaded, procs[p].result)
        /\ procs' = [procs EXCEPT ![p].pc = "unlink",
                                  ![p].wrote = procs[p].wrote \cup {procs[p].result}]
        /\ UNCHANGED forecast_files
        /\ OverlapFrame

\* forecast_file.unlink()
OverlapUnlink ==
    \E p \in ProcIds :
        /\ procs[p].pc = "unlink"
        /\ LET f == procs[p].file
               gone == f \notin DOMAIN StoreOf(procs[p].kind)
           IN /\ procs' = IF gone
                          THEN [procs EXCEPT ![p].pc = "crashed"]
                          ELSE [procs EXCEPT ![p].pc = "loop", ![p].file = NoFile,
                                             ![p].todo = procs[p].todo \ {f}]
              /\ aq_forecasts' = IF ~gone /\ procs[p].kind = "aq"
                                 THEN Unlink(aq_forecasts, f) ELSE aq_forecasts
              /\ pollen_forecasts' = IF ~gone /\ procs[p].kind = "pollen"
                                     THEN Unlink(pollen_forecasts, f) ELSE pollen_forecasts
        /\ UNCHANGED results
        /\ OverlapFrame

\* a loop ends: the pollen loop begins, or score_forecasts returns
OverlapLoopEnds ==
    \E p \in ProcIds :
        /\ procs[p].pc = "loop"
        /\ procs[p].todo = {}
        /\ procs' = IF procs[p].kind = "aq"
                    THEN [procs EXCEPT ![p].pc = "glob", ![p].kind = "pollen"]
                    ELSE [procs EXCEPT ![p].pc = "done"]
        /\ UNCHANGED <<forecast_files, results>>
        /\ OverlapFrame

NextOverlap ==
    \/ OverlapGlob
    \/ OverlapOpen
    \/ OverlapLoad
    \/ OverlapSave
    \/ OverlapUnlink
    \/ OverlapLoopEnds

SpecOverlap == OverlapInit /\ [][NextOverlap]_vars

\* C22: when two score_forecasts interleave, no append is lost (every result a
\* process has passed to save_result is in the log) and a record due today is
\* scored by one of them only (no two results of the log have the same date,
\* kind, location and lead time).
C22_NoLostAppend ==
    /\ \A p \in ProcIds : \A r \in procs[p].wrote :
           \E i \in 1..Len(results) : results[i] = r
    /\ \A i, j \in 1..Len(results) :
           (/\ results[i].date = results[j].date
            /\ results[i].type = results[j].type
            /\ results[i].location = results[j].location
            /\ results[i].lead_days = results[j].lead_days) => i = j

\* C23: Collect and Archive of a run see the same source data: when the first
\* run has finished save_forecasts, a location with forecasts issued today is in
\* today's snapshot of that kind (no earlier run has written either).
C23_SameFetchOutcome ==
    (runs = 1 /\ pc = "archive" /\ loc_i > Len(LOCATIONS)) =>
        /\ \A f \in DOMAIN aq_forecasts :
               aq_forecasts[f].issued_date = today =>
                   aq_forecasts[f].location \in DOMAIN aq_current[today]
        /\ \A f \in DOMAIN pollen_forecasts :
               pollen_forecasts[f].issued_date = today =>
                   pollen_forecasts[f].location \in DOMAIN pollen_current[today]

\* C24: over runs that do not overlap and whose dates never decrease, every
\* step leaves the result log ordered by scoring date, and every entry it
\* appends carries the date of the running run and a lead time of at least 1.
C24_LogOrderedByRunDate ==
    [][/\ \A res \in NewResults : res.date = today' /\ res.lead_days >= 1
       /\ \A i \in 1..Len(results') : \A j \in i..Len(results') :
              results'[i].date <= results'[j].date]_vars

\* the log holds results appended by runs of two different dates, the later
\* run just having appended one
C24_Witness ==
    /\ Len(results) >= 2
    /\ results[1].date < results[Len(results)].date
    /\ results[Len(results)].date = today
    /\ pc \in ScorePhase

====
